---------------------------- MODULE Spec2Model ----------------------------
(***************************************************************************)
(* Voice assistant: the Turn Controller (the React page component Home,    *)
(* src/unnamed/part_000) and the Turn Dispatcher (the API route            *)
(* src/src/pages/api/chat.ts).                                             *)
(*                                                                         *)
(* Text is modelled as a sequence of one-character strings, so that        *)
(* split, slice, join, toLowerCase and includes are computed as JavaScript *)
(* computes them.  Model identifiers are TLA+ strings; Chars gives the     *)
(* characters of each.                                                     *)
(***************************************************************************)
EXTENDS Integers, Sequences, FiniteSets, Bags, TLC

VARIABLES
    isRecording,     \* useState<boolean>(false)
    isPlaying,       \* useState<boolean>(false)
    transcript,      \* useState<string>("")
    model,           \* useState<string>("")
    recognitionRef,  \* the session recognitionRef.current holds (none: null)
    orphans,         \* running sessions whose handle recognitionRef no longer holds
    silenceTimer,    \* the timeout silenceTimerRef.current names
    inflight,        \* fetch("/api/chat") calls awaiting their response
    audios,          \* Audio elements playing
    lastEvent,       \* the handler that ran last
    srvReq,          \* Turn Dispatcher: the request body
    srvRes,          \* Turn Dispatcher: what the handler produced
    detIn,           \* keyword detection: the transcript
    detOut           \* keyword detection: the identifier found

vars == <<isRecording, isPlaying, transcript, model, recognitionRef, orphans,
          silenceTimer, inflight, audios, lastEvent, srvReq, srvRes, detIn, detOut>>

ctlVars == <<isRecording, isPlaying, transcript, model, recognitionRef, orphans,
             silenceTimer, inflight, audios, lastEvent>>

srvVars == <<srvReq, srvRes>>

detVars == <<detIn, detOut>>

-----------------------------------------------------------------------------
(* Bounds *)

\* recognition sessions running (started, not yet ended) at once
MaxSessions == 2
\* turns in progress at once: requests awaiting their response and replies playing
MaxTurns == 2
\* how many of the sample utterances the recogniser may deliver
NumUtterances == 2
\* how many of the rendered model bubbles the user clicks
NumBubbles == 2
\* tokens of a transcript given to keyword detection
MaxTokens == 4

-----------------------------------------------------------------------------
(* JavaScript strings *)

\* an absent value: an omitted argument, a missing JSON field
Undefined == "<undefined>"

Truthy(s) == s # Undefined /\ s # ""

ToLowerChar(c) ==
    CASE c = "G" -> "g"
      [] c = "P" -> "p"
      [] c = "T" -> "t"
      [] c = "L" -> "l"
      [] c = "U" -> "u"
      [] OTHER -> c

ToUpperChar(c) ==
    CASE c = "g" -> "G"
      [] c = "p" -> "P"
      [] c = "t" -> "T"
      [] c = "l" -> "L"
      [] c = "m" -> "M"
      [] c = "u" -> "U"
      [] OTHER -> c

\* String.prototype.toLowerCase
ToLowerCase(s) == [i \in 1..Len(s) |-> ToLowerChar(s[i])]

\* String.prototype.includes
Includes(s, k) ==
    \E i \in 0..(Len(s) - Len(k)) : SubSeq(s, i + 1, i + Len(k)) = k

\* String.prototype.split(" "): the empty string splits into one empty token
RECURSIVE Split(_)
Split(s) ==
    LET sp == {i \in 1..Len(s) : s[i] = " "} IN
    IF sp = {} THEN <<s>>
    ELSE LET i == CHOOSE j \in sp : \A k \in sp : j <= k
         IN  <<SubSeq(s, 1, i - 1)>> \o Split(SubSeq(s, i + 1, Len(s)))

\* Array.prototype.slice(from, to), 0-based, to exclusive
Slice(a, from, to) ==
    SubSeq(a, from + 1, IF to < Len(a) THEN to ELSE Len(a))

\* Array.prototype.join(" ")
RECURSIVE Join(_)
Join(a) ==
    IF Len(a) = 0 THEN <<>>
    ELSE IF Len(a) = 1 THEN a[1]
    ELSE a[1] \o <<" ">> \o Join(Tail(a))

\* the characters of the words the model uses
Chars(w) ==
    CASE w = "gpt4" -> <<"g", "p", "t", "4">>
      [] w = "gpt" -> <<"g", "p", "t">>
      [] w = "perplexity" -> <<"p", "e", "r", "p", "l", "e", "x", "i", "t", "y">>
      [] w = "local mistral" ->
            <<"l", "o", "c", "a", "l", " ", "m", "i", "s", "t", "r", "a", "l">>
      [] w = "local llama" ->
            <<"l", "o", "c", "a", "l", " ", "l", "l", "a", "m", "a">>
      [] w = "mixture" -> <<"m", "i", "x", "t", "u", "r", "e">>
      [] w = "mistral" -> <<"m", "i", "s", "t", "r", "a", "l">>
      [] w = "llama" -> <<"l", "l", "a", "m", "a">>
      [] w = "local" -> <<"l", "o", "c", "a", "l">>
      [] w = "local-mistral" ->
            <<"l", "o", "c", "a", "l", "-", "m", "i", "s", "t", "r", "a", "l">>
      [] w = "unknown-model" ->
            <<"u", "n", "k", "n", "o", "w", "n", "-", "m", "o", "d", "e", "l">>
      [] w = "gpt-3.5" -> <<"g", "p", "t", "-", "3", ".", "5">>
      [] w = "GPT4" -> <<"G", "P", "T", "4">>
      [] w = "Local" -> <<"L", "o", "c", "a", "l">>
      [] w = "Use" -> <<"U", "s", "e">>
      [] w = "model" -> <<"m", "o", "d", "e", "l">>
      [] w = "tell" -> <<"t", "e", "l", "l">>
      [] w = "joke" -> <<"j", "o", "k", "e">>
      [] w = "hello" -> <<"h", "e", "l", "l", "o">>
      [] w = "please" -> <<"p", "l", "e", "a", "s", "e">>
      [] w = "me" -> <<"m", "e">>
      [] w = "a" -> <<"a">>
      [] w = "" -> <<>>

\* the text made of the words ws, one space between two words
Text(ws) == Join([i \in 1..Len(ws) |-> Chars(ws[i])])

-----------------------------------------------------------------------------
(* Keyword detection: the silence timer's callback, part_000 lines 101-114 *)

modelKeywords ==
    <<"gpt4", "gpt", "perplexity", "local mistral", "local llama",
      "mixture", "mistral", "llama">>

\* detection with the broader keywords listed before the specific ones
detectedModel_BroadFirst(interimTranscript) ==
    LET order == <<"gpt", "gpt4", "perplexity", "mistral", "llama",
                   "local mistral", "local llama", "mixture">>
        hay == ToLowerCase(Join(Slice(Split(interimTranscript), 0, 3)))
        hits == {i \in 1..Len(order) : Includes(hay, Chars(order[i]))}
    IN  IF hits = {} THEN Undefined
        ELSE order[CHOOSE i \in hits : \A j \in hits : i <= j]

\* modelKeywords.find(keyword => words.slice(0, 3).join(" ").toLowerCase().includes(keyword))
detectedModel(interimTranscript) ==
    LET words == Split(interimTranscript)
        hay == ToLowerCase(Join(Slice(words, 0, 3)))
        hits == {i \in 1..Len(modelKeywords) : Includes(hay, Chars(modelKeywords[i]))}
    IN  IF hits = {} THEN Undefined
        ELSE modelKeywords[CHOOSE i \in hits : \A j \in hits : i <= j]

-----------------------------------------------------------------------------
(* Turn Dispatcher: src/src/pages/api/chat.ts *)

\* a JSON value of the request body: a string, an absent field, or another type
JsString(v) == [t |-> "string", v |-> v]
JsAbsent(none) == [t |-> "undefined", v |-> none]
JsNumber(none) == [t |-> "number", v |-> none]

\* the schema with the page's display label as the default model
requestSchema_DefaultLabel(body) ==
    IF body.message.t # "string" THEN [ok |-> FALSE, message |-> <<>>, model |-> ""]
    ELSE IF body.model.t = "undefined"
         THEN [ok |-> TRUE, message |-> body.message.v, model |-> "gpt-3.5"]
    ELSE IF body.model.t = "string"
         THEN [ok |-> TRUE, message |-> body.message.v, model |-> body.model.v]
    ELSE [ok |-> FALSE, message |-> <<>>, model |-> ""]

\* z.object({message: z.string(), model: z.string().default("gpt")}).parse(body)
requestSchema(body) ==
    IF body.message.t # "string" THEN [ok |-> FALSE, message |-> <<>>, model |-> ""]
    ELSE IF body.model.t = "undefined"
         THEN [ok |-> TRUE, message |-> body.message.v, model |-> "gpt"]
    ELSE IF body.model.t = "string"
         THEN [ok |-> TRUE, message |-> body.message.v, model |-> body.model.v]
    ELSE [ok |-> FALSE, message |-> <<>>, model |-> ""]

\* the text a backend replies with: the collaborator's, opaque here
ReplyText == <<"<reply>">>

NoCall == [fn |-> "none", model |-> "", input |-> <<>>, voice |-> ""]

\* getModelResponse with a default branch that falls back to the hosted adapter
getModelResponse_DefaultHosted(modelName, prompt, backend) ==
    LET call(fn, m) == [fn |-> fn, model |-> m, input |-> prompt, voice |-> ""] IN
    CASE modelName \in {"local mistral", "local llama"} ->
            [call |-> call("Ollama", IF modelName = "local mistral" THEN "mistral" ELSE "llama2"),
             ok |-> backend = "ok"]
      [] modelName \in {"mixture", "mistral", "perplexity", "llama"} ->
            [call |-> call("axios.post",
                           CASE modelName = "mixture" -> "mixtral-8x7b-instruct"
                             [] modelName = "mistral" -> "mistral-7b-instruct"
                             [] modelName = "perplexity" -> "pplx-70b-online"
                             [] modelName = "llama" -> "llama-2-70b-chat"),
             ok |-> backend = "ok"]
      [] OTHER ->
            [call |-> call("LangchainOpenAI", IF modelName = "gpt4" THEN "gpt-4" ELSE Undefined),
             ok |-> backend = "ok"]

\* getModelResponse: the adapter invoked (none for an unsupported model) and
\* whether it returned or threw; backend is the collaborator's outcome
getModelResponse(modelName, prompt, backend) ==
    LET call(fn, m) == [fn |-> fn, model |-> m, input |-> prompt, voice |-> ""] IN
    CASE modelName \in {"gpt", "gpt4"} ->
            [call |-> call("LangchainOpenAI", IF modelName = "gpt4" THEN "gpt-4" ELSE Undefined),
             ok |-> backend = "ok"]
      [] modelName \in {"local mistral", "local llama"} ->
            [call |-> call("Ollama", IF modelName = "local mistral" THEN "mistral" ELSE "llama2"),
             ok |-> backend = "ok"]
      [] modelName \in {"mixture", "mistral", "perplexity", "llama"} ->
            [call |-> call("axios.post",
                           CASE modelName = "mixture" -> "mixtral-8x7b-instruct"
                             [] modelName = "mistral" -> "mistral-7b-instruct"
                             [] modelName = "perplexity" -> "pplx-70b-online"
                             [] modelName = "llama" -> "llama-2-70b-chat"),
             ok |-> backend = "ok"]
      [] OTHER -> [call |-> NoCall, ok |-> FALSE]

\* a createAudio that logs a synthesis failure and returns the empty string
createAudio_SwallowError(fullMessage, voice, synth) ==
    [call |-> [fn |-> "speech.create", model |-> "tts-1", input |-> fullMessage, voice |-> voice],
     ok |-> TRUE,
     base64 |-> IF synth = "ok" THEN <<"<mp3>", voice>> \o fullMessage ELSE <<>>]

\* createAudio: openai.audio.speech.create, then the base64 of the bytes it
\* returned ("empty": no bytes, so the empty string)
createAudio(fullMessage, voice, synth) ==
    [call |-> [fn |-> "speech.create", model |-> "tts-1", input |-> fullMessage, voice |-> voice],
     ok |-> synth # "fail",
     base64 |-> IF synth = "ok" THEN <<"<mp3>", voice>> \o fullMessage ELSE <<>>]

Instruction == <<"Be precise and concise, never respond in more than 1-2 sentences! ">>

\* modelName.charAt(0).toUpperCase() + modelName.slice(1) + " here, "
introMessage(modelName) ==
    LET cs == Chars(modelName) IN
    (IF Len(cs) = 0 THEN <<>> ELSE <<ToUpperChar(cs[1])>> \o Tail(cs)) \o <<" here, ">>

Thrown(calls) ==
    [outcome |-> "throw", error |-> "Failed to process request",
     json |-> [data |-> <<>>, contentType |-> "", model |-> ""], calls |-> calls]

\* a policy with one voice for every model
voiceOf_AlwaysEcho(modelName) == "echo"

\* modelName.includes("local") ? "fable" : "echo"
voiceOf(modelName) ==
    IF Includes(Chars(modelName), Chars("local")) THEN "fable" ELSE "echo"

\* POST: the handler, given the outcomes of its collaborators
POST(body, backend, synth) ==
    LET parsed == requestSchema(body) IN
    IF ~parsed.ok THEN Thrown(<<>>)
    ELSE
    LET message == parsed.message
        modelName == parsed.model
        tokens == Split(ToLowerCase(message))
        prompt == Instruction \o Join(Slice(tokens, 1, Len(tokens)))
        gpt == getModelResponse(modelName, prompt, backend)
        called == IF gpt.call.fn = "none" THEN <<>> ELSE <<gpt.call>>
    IN  IF ~gpt.ok THEN Thrown(called)
        ELSE
        LET voice == voiceOf(modelName)
            fullMessage == introMessage(modelName) \o ReplyText
            audio == createAudio(fullMessage, voice, synth)
        IN  IF ~audio.ok THEN Thrown(called \o <<audio.call>>)
            ELSE [outcome |-> "200", error |-> "",
                  json |-> [data |-> audio.base64, contentType |-> "audio/mp3",
                            model |-> modelName],
                  calls |-> called \o <<audio.call>>]

-----------------------------------------------------------------------------
(* Turn Controller: src/unnamed/part_000 *)

\* what the recogniser may deliver as the text of a result event
Phrases ==
    <<Text(<<"hello">>),
      Text(<<"local", "mistral", "tell", "joke">>),
      Text(<<"tell", "gpt4", "joke">>),
      Text(<<"tell", "tell", "tell", "gpt">>)>>

Utterances ==
    {Phrases[i] : i \in 1..(IF NumUtterances < Len(Phrases) THEN NumUtterances ELSE Len(Phrases))}

\* the bubbles the page renders, in order (lines 191-224)
BubbleModels ==
    <<"gpt", "gpt4", "perplexity", "local mistral", "local llama",
      "mixture", "mistral", "llama">>

Bubbles ==
    {BubbleModels[i] : i \in 1..(IF NumBubbles < Len(BubbleModels) THEN NumBubbles ELSE Len(BubbleModels))}

NoSession == [st |-> "none", cm |-> FALSE]

NoTimer == [pending |-> FALSE, text |-> <<>>, cm |-> FALSE]

One(x) == SetToBag({x})

\* the sessions the browser is running (started, end event not yet delivered):
\* the one recognitionRef.current holds, and those whose handle was overwritten
Alive(ses) == ses.st \in {"active", "stopping"}

AliveSessions ==
    (IF Alive(recognitionRef) THEN {[cur |-> TRUE, cm |-> recognitionRef.cm]} ELSE {})
    \cup {[cur |-> FALSE, cm |-> o.cm] : o \in BagToSet(orphans)}

NumAlive == (IF Alive(recognitionRef) THEN 1 ELSE 0) + BagCardinality(orphans)

\* stopRecording: recognitionRef.current.stop(), which asks the session to end;
\* its end event comes later
stopRecording(ref) ==
    IF ref.st = "active" THEN [ref EXCEPT !.st = "stopping"] ELSE ref

\* startRecording, in a render whose model state is set (cm) or still empty: a
\* new session is created and started, and recognitionRef is overwritten with
\* it.  The handlers the session gets (handleResult, and through it the timer's
\* callback and sendToBackend) are that render's, and read its model state.
startRecording(cm) ==
    /\ NumAlive < MaxSessions
    /\ orphans' = IF Alive(recognitionRef) THEN orphans (+) One(recognitionRef) ELSE orphans
    /\ recognitionRef' = [st |-> "active", cm |-> cm]
    /\ isRecording' = TRUE
    /\ transcript' = <<>>

\* sendToBackend up to its first await, in a render whose model state is set
\* (cm) or still empty; cur is what the caller has set the model to so far
sendToBackend(message, modelKeyword, cm, cur, via) ==
    /\ BagCardinality(inflight) + BagCardinality(audios) < MaxTurns
    /\ model' = IF Truthy(modelKeyword) THEN modelKeyword
                ELSE IF ~cm THEN "gpt-3.5"
                ELSE cur
    /\ recognitionRef' = stopRecording(recognitionRef)
    /\ inflight' = inflight (+) One(
          [body |-> [message |-> JsString(message),
                     model |-> IF modelKeyword = Undefined THEN JsAbsent("")
                               ELSE JsString(modelKeyword)],
           cm |-> cm, via |-> via])

\* a Stop that runs the keyword detection on the transcript it sends
handleToggleRecording_Detect ==
    IF ~isRecording /\ ~isPlaying
    THEN /\ startRecording(Truthy(model))
         /\ lastEvent' = "toggleStart"
         /\ UNCHANGED <<isPlaying, model, silenceTimer, inflight, audios>>
    ELSE IF isRecording
    THEN /\ sendToBackend(transcript, detectedModel(transcript), Truthy(model), model, "toggle")
         /\ lastEvent' = "toggleStop"
         /\ UNCHANGED <<isRecording, isPlaying, transcript, orphans,
                        silenceTimer, audios>>
    ELSE /\ lastEvent' = "toggleNoop"
         /\ UNCHANGED <<isRecording, isPlaying, transcript, model, recognitionRef,
                        orphans, silenceTimer, inflight, audios>>

\* a Start that does not look at isPlaying
handleToggleRecording_NoPlayingGuard ==
    IF ~isRecording
    THEN /\ startRecording(Truthy(model))
         /\ lastEvent' = "toggleStart"
         /\ UNCHANGED <<isPlaying, model, silenceTimer, inflight, audios>>
    ELSE /\ sendToBackend(transcript, Undefined, Truthy(model), model, "toggle")
         /\ lastEvent' = "toggleStop"
         /\ UNCHANGED <<isRecording, isPlaying, transcript, orphans,
                        silenceTimer, audios>>

\* the Start/Stop control
handleToggleRecording ==
    IF ~isRecording /\ ~isPlaying
    THEN /\ startRecording(Truthy(model))
         /\ lastEvent' = "toggleStart"
         /\ UNCHANGED <<isPlaying, model, silenceTimer, inflight, audios>>
    ELSE IF isRecording
    THEN /\ sendToBackend(transcript, Undefined, Truthy(model), model, "toggle")
         /\ lastEvent' = "toggleStop"
         /\ UNCHANGED <<isRecording, isPlaying, transcript, orphans,
                        silenceTimer, audios>>
    ELSE /\ lastEvent' = "toggleNoop"
         /\ UNCHANGED <<isRecording, isPlaying, transcript, model, recognitionRef,
                        orphans, silenceTimer, inflight, audios>>

\* a model bubble's onClick
bubbleClick(m) ==
    /\ sendToBackend(Chars("Use") \o <<" ">> \o Chars(m) \o <<" ">> \o Chars("model"),
                     m, Truthy(model), model, "bubble")
    /\ lastEvent' = "bubble"
    /\ UNCHANGED <<isRecording, isPlaying, transcript, orphans, silenceTimer, audios>>

\* handleResult, the onresult of a running session: the pending timer is
\* cleared and a new one is set, whose callback holds this transcript
handleResult(ses, interimTranscript) ==
    /\ ses \in AliveSessions
    /\ transcript' = interimTranscript
    /\ silenceTimer' = [pending |-> TRUE, text |-> interimTranscript, cm |-> ses.cm]
    /\ lastEvent' = "result"
    /\ UNCHANGED <<isRecording, isPlaying, model, recognitionRef, orphans,
                   inflight, audios>>

\* the silence timer's callback, 2000 ms after the last result
silenceTimeout ==
    /\ silenceTimer.pending
    /\ LET detected == detectedModel(silenceTimer.text) IN
       sendToBackend(silenceTimer.text, detected, silenceTimer.cm,
                     IF Truthy(detected) THEN detected ELSE "gpt", "timer")
    /\ transcript' = <<>>
    /\ silenceTimer' = NoTimer
    /\ lastEvent' = "timer"
    /\ UNCHANGED <<isRecording, isPlaying, orphans, audios>>

\* the onend of a running session
onend(ses) ==
    /\ ses \in AliveSessions
    /\ IF ses.cur
       THEN /\ recognitionRef' = [st |-> "ended", cm |-> FALSE]
            /\ UNCHANGED orphans
       ELSE /\ \E o \in BagToSet(orphans) : o.cm = ses.cm /\ orphans' = orphans (-) One(o)
            /\ UNCHANGED recognitionRef
    /\ isRecording' = FALSE
    /\ silenceTimer' = NoTimer
    /\ lastEvent' = "onend"
    /\ UNCHANGED <<isPlaying, transcript, model, inflight, audios>>

\* sendToBackend's catch: the error is logged
catch ==
    /\ lastEvent' = "catch"
    /\ UNCHANGED <<isRecording, isPlaying, transcript, model, recognitionRef,
                   orphans, silenceTimer, audios>>

\* fetch rejects: a network error
fetchRejected(req) ==
    /\ req \in BagToSet(inflight)
    /\ inflight' = inflight (-) One(req)
    /\ catch

\* fetch resolves with the Dispatcher's answer, res; sendToBackend continues.
\* audio.play() may fail to start the playback (playOk false)
responseReceived(req, res) ==
    /\ req \in BagToSet(inflight)
    /\ inflight' = inflight (-) One(req)
    /\ LET data == res.json IN
       IF res.outcome # "200" THEN catch
       ELSE IF data.data # <<>> /\ data.contentType = "audio/mp3"
       THEN /\ isPlaying' = TRUE
            /\ \E playOk \in BOOLEAN :
                  /\ audios' = IF playOk
                               THEN audios (+) One([model |-> data.model, cm |-> req.cm])
                               ELSE audios
                  /\ lastEvent' = IF playOk THEN "play" ELSE "playFailed"
            /\ UNCHANGED <<isRecording, transcript, model, recognitionRef,
                           orphans, silenceTimer>>
       ELSE /\ lastEvent' = "noAudio"
            /\ UNCHANGED <<isRecording, isPlaying, transcript, model, recognitionRef,
                           orphans, silenceTimer, audios>>

\* the Dispatcher's possible answers to a request body
Answers(body) ==
    {POST(body, "fail", "ok")} \cup {POST(body, "ok", synth) : synth \in {"ok", "empty", "fail"}}

\* an onended that clears isPlaying and does not start recording again
onended_NoRestart(audio) ==
    /\ audio \in BagToSet(audios)
    /\ audios' = audios (-) One(audio)
    /\ isPlaying' = FALSE
    /\ model' = IF Truthy(audio.model) THEN audio.model ELSE model
    /\ lastEvent' = "onended"
    /\ UNCHANGED <<isRecording, transcript, recognitionRef, orphans, silenceTimer, inflight>>

\* audio.onended of a reply that is playing
onended(audio) ==
    /\ audio \in BagToSet(audios)
    /\ audios' = audios (-) One(audio)
    /\ isPlaying' = FALSE
    /\ startRecording(audio.cm)
    /\ model' = IF Truthy(audio.model) THEN audio.model ELSE model
    /\ lastEvent' = "onended"
    /\ UNCHANGED <<silenceTimer, inflight>>

CtlInit ==
    /\ isRecording = FALSE
    /\ isPlaying = FALSE
    /\ transcript = <<>>
    /\ model = ""
    /\ recognitionRef = NoSession
    /\ orphans = EmptyBag
    /\ silenceTimer = NoTimer
    /\ inflight = EmptyBag
    /\ audios = EmptyBag
    /\ lastEvent = "init"

\* no answer yet
Pending ==
    [outcome |-> "pending", error |-> "",
     json |-> [data |-> <<>>, contentType |-> "", model |-> ""], calls |-> <<>>]

SrvIdle ==
    /\ srvReq = [body |-> [message |-> JsAbsent(<<>>), model |-> JsAbsent("")],
                 backend |-> "ok", synth |-> "ok"]
    /\ srvRes = Pending

DetIdle ==
    /\ detIn = <<>>
    /\ detOut = "<pending>"

Init == CtlInit /\ SrvIdle /\ DetIdle

Next ==
    \/ handleToggleRecording /\ UNCHANGED <<srvVars, detVars>>
    \/ \E m \in Bubbles : bubbleClick(m) /\ UNCHANGED <<srvVars, detVars>>
    \/ \E ses \in AliveSessions, t \in Utterances :
          handleResult(ses, t) /\ UNCHANGED <<srvVars, detVars>>
    \/ silenceTimeout /\ UNCHANGED <<srvVars, detVars>>
    \/ \E ses \in AliveSessions : onend(ses) /\ UNCHANGED <<srvVars, detVars>>
    \/ \E req \in BagToSet(inflight) : fetchRejected(req) /\ UNCHANGED <<srvVars, detVars>>
    \/ \E req \in BagToSet(inflight) : \E res \in Answers(req.body) :
          responseReceived(req, res) /\ UNCHANGED <<srvVars, detVars>>
    \/ \E audio \in BagToSet(audios) : onended(audio) /\ UNCHANGED <<srvVars, detVars>>

Spec == Init /\ [][Next]_vars

-----------------------------------------------------------------------------
(* The Turn Dispatcher alone: one request, the collaborators' outcomes given *)

SupportedModels ==
    {"gpt", "gpt4", "local mistral", "local llama", "mixture", "mistral",
     "perplexity", "llama"}

RequestMessages ==
    {JsAbsent(<<>>), JsNumber(<<>>), JsString(<<>>),
     JsString(Text(<<"gpt4", "tell", "joke">>)),
     JsString(Text(<<"Local", "mistral", "tell", "joke">>)),
     JsString(Text(<<"local", "llama", "tell", "joke">>)),
     JsString(Text(<<"hello">>))}

RequestModels ==
    {JsAbsent(""), JsNumber("")}
    \cup {JsString(m) : m \in SupportedModels}
    \cup {JsString(m) : m \in {"unknown-model", "local-mistral", "gpt-3.5", "GPT4", ""}}

DispatchInit ==
    /\ CtlInit
    /\ DetIdle
    /\ srvReq \in [body : [message : RequestMessages, model : RequestModels],
                   backend : {"ok", "fail"}, synth : {"ok", "empty", "fail"}]
    /\ srvRes = Pending

dispatch ==
    /\ srvRes = Pending
    /\ srvRes' = POST(srvReq.body, srvReq.backend, srvReq.synth)
    /\ UNCHANGED <<srvReq, ctlVars, detVars>>

SpecDispatch == DispatchInit /\ [][dispatch]_vars

-----------------------------------------------------------------------------
(* Keyword detection alone: one transcript *)

Vocabulary ==
    {"gpt4", "gpt", "perplexity", "local", "mistral", "llama", "mixture", "tell", "", "GPT4"}

Transcripts ==
    {Text(ws) : ws \in UNION {[1..n -> Vocabulary] : n \in 0..MaxTokens}}
    \cup {Text(<<"local", "mistral", "please", "tell", "me", "a", "joke">>)}

DetectInit ==
    /\ CtlInit
    /\ SrvIdle
    /\ detIn \in Transcripts
    /\ detOut = "<pending>"

detect ==
    /\ detOut = "<pending>"
    /\ detOut' = detectedModel(detIn)
    /\ UNCHANGED <<detIn, ctlVars, srvVars>>

SpecDetect == DetectInit /\ [][detect]_vars

-----------------------------------------------------------------------------
(* Claims about the Turn Controller, checked under Spec *)

Turns == BagCardinality(inflight) + BagCardinality(audios)

\* C1: in every reachable state at most one of isRecording and isPlaying is
\* true.
C1_RecordingXorPlaying == ~(isRecording /\ isPlaying)

\* C2: at most one turn is in flight: no request is issued while another
\* request awaits its response or a reply is playing.
C2_OneTurnInFlight == Turns <= 1

\* C3: when a turn request has failed (the catch has run) the controller is
\* Idle: nothing is played, no session is listening, no silence timer is
\* pending.  A session already asked to stop, whose end event is still to come,
\* is not counted as listening.
C3_FailureLeavesIdle ==
    lastEvent = "catch" =>
        /\ ~isPlaying
        /\ recognitionRef.st # "active"
        /\ \A o \in BagToSet(orphans) : o.st # "active"
        /\ (NumAlive = 0 => ~isRecording /\ ~silenceTimer.pending)

\* C4: when the playback of a reply ends, isPlaying is false and the
\* controller is listening again (a session has been started and isRecording
\* is true), with no user action.
C4_PlaybackEndResumesListening ==
    lastEvent = "onended" =>
        /\ ~isPlaying
        /\ isRecording
        /\ recognitionRef.st = "active"

C4_Witness ==
    /\ lastEvent = "onended"
    /\ isRecording
    /\ recognitionRef.st = "active"
    /\ Turns = 0

\* C5: after Stop is pressed while Listening, exactly one turn request is
\* issued for that utterance: the silence timer does not fire afterwards and
\* send a second request for it.  (Stated for the session Stop has stopped and
\* whose end event is still to come: a request of the Stop and a request of the
\* timer with the same transcript are never both awaiting their response.)
C5_StopSendsOnce ==
    ~(/\ recognitionRef.st = "stopping"
      /\ \E r1, r2 \in BagToSet(inflight) :
            /\ r1.via = "toggle"
            /\ r2.via = "timer"
            /\ r1.body.message = r2.body.message)

\* the lowercased first 3 tokens of a transcript, as one string
FirstTokens(t) == ToLowerCase(Join(Slice(Split(t), 0, 3)))

HasKeyword(t, k) == Includes(FirstTokens(t), Chars(k))

NoKeyword(t) == \A i \in 1..Len(modelKeywords) : ~HasKeyword(t, modelKeywords[i])

\* C10: a transcript sent by the silence timer with no keyword in its first 3
\* tokens is routed to "gpt": the controller's model becomes "gpt" and the
\* Dispatcher handles the request as model "gpt".
C10_NoKeywordRoutesToGpt ==
    (/\ lastEvent = "timer"
     /\ \A r \in BagToSet(inflight) : r.via = "timer" => NoKeyword(r.body.message.v))
    => /\ model = "gpt"
       /\ \A r \in BagToSet(inflight) :
             r.via = "timer" => POST(r.body, "ok", "ok").json.model = "gpt"

-----------------------------------------------------------------------------
(* Claims about the Turn Dispatcher, checked under SpecDispatch *)

Dispatched == srvRes # Pending

AdapterCalls == {i \in 1..Len(srvRes.calls) : srvRes.calls[i].fn # "speech.create"}

SpeechCalls == {i \in 1..Len(srvRes.calls) : srvRes.calls[i].fn = "speech.create"}

UnsupportedRequest ==
    srvReq.body.model.t = "string" /\ srvReq.body.model.v \notin SupportedModels

\* C6: for a request whose model identifier is outside the supported set, no
\* backend adapter and no speech synthesis is invoked, and the request ends in
\* an error, not a 200 response.
C6_UnsupportedModelInvokesNothing ==
    (Dispatched /\ UnsupportedRequest) =>
        /\ srvRes.calls = <<>>
        /\ srvRes.outcome # "200"

C6_Witness ==
    /\ Dispatched
    /\ UnsupportedRequest
    /\ srvReq.body.message.t = "string"
    /\ srvReq.backend = "ok"
    /\ srvReq.synth = "ok"
    /\ srvRes.outcome = "throw"

\* what the handler answers when a backend fails: the generic server error
BackendFailure ==
    POST([message |-> JsString(Text(<<"hello">>)), model |-> JsString("gpt")], "fail", "ok")

\* C7: for a request whose message is missing or not a string, the answer is a
\* client error, distinct from the generic server error of a backend or
\* synthesis failure, and no backend adapter is invoked.
C7_MalformedIsClientError ==
    (Dispatched /\ srvReq.body.message.t # "string") =>
        /\ AdapterCalls = {}
        /\ <<srvRes.outcome, srvRes.error>> # <<BackendFailure.outcome, BackendFailure.error>>

\* C8: for a supported model identifier (or none, which defaults to "gpt"),
\* when the backend and the synthesis succeed, the response is a 200 with
\* contentType "audio/mp3" and the model requested.
C8_ResponseEchoesModel ==
    (/\ Dispatched
     /\ srvReq.body.message.t = "string"
     /\ srvReq.body.model.t \in {"string", "undefined"}
     /\ srvReq.body.model.t = "string" => srvReq.body.model.v \in SupportedModels
     /\ srvReq.backend = "ok"
     /\ srvReq.synth # "fail")
    => /\ srvRes.outcome = "200"
       /\ srvRes.json.contentType = "audio/mp3"
       /\ srvRes.json.model = IF srvReq.body.model.t = "undefined" THEN "gpt"
                              ELSE srvReq.body.model.v

C8_Witness ==
    /\ Dispatched
    /\ srvReq.body.model.t = "undefined"
    /\ srvRes.outcome = "200"
    /\ srvRes.json.model = "gpt"
    /\ srvRes.json.contentType = "audio/mp3"

-----------------------------------------------------------------------------
(* Claims about keyword detection, checked under SpecDetect *)

Detected == detOut # "<pending>"

\* the keywords listed before k in modelKeywords
ListedBefore(k) ==
    {modelKeywords[i] : i \in {j \in 1..Len(modelKeywords) :
        \E n \in 1..Len(modelKeywords) : modelKeywords[n] = k /\ j < n}}

\* the specific keywords and the broader keyword each contains
Broader(k) ==
    CASE k = "local mistral" -> "mistral"
      [] k = "local llama" -> "llama"
      [] k = "gpt4" -> "gpt"

SpecificKeywords == {"local mistral", "local llama", "gpt4"}

\* C9, as claimed: whenever the first 3 tokens contain a specific keyword,
\* detection selects that identifier.
C9_SpecificAlwaysSelected ==
    Detected => \A k \in SpecificKeywords : HasKeyword(detIn, k) => detOut = k

\* C9, amended: whenever the first 3 tokens contain a specific keyword,
\* detection never selects the broader keyword it contains, and selects the
\* specific identifier unless a keyword listed before it occurs in those
\* tokens too; "local mistral please tell me a joke" selects "local mistral".
C9_SpecificBeforeBroader ==
    Detected =>
        /\ \A k \in SpecificKeywords :
              HasKeyword(detIn, k) =>
                 /\ detOut # Broader(k)
                 /\ (\A e \in ListedBefore(k) : ~HasKeyword(detIn, e)) => detOut = k
        /\ (detIn = Text(<<"local", "mistral", "please", "tell", "me", "a", "joke">>)
               => detOut = "local mistral")

C9_Witness ==
    /\ detIn = Text(<<"local", "mistral", "please", "tell", "me", "a", "joke">>)
    /\ detOut = "local mistral"

-----------------------------------------------------------------------------
(* More claims about the Turn Dispatcher, checked under SpecDispatch *)

ValidRequest ==
    /\ srvReq.body.message.t = "string"
    /\ \/ srvReq.body.model.t = "undefined"
       \/ srvReq.body.model.t = "string" /\ srvReq.body.model.v \in SupportedModels

GenericError == <<srvRes.outcome, srvRes.error>> = <<BackendFailure.outcome, BackendFailure.error>>

\* C11: no partial response: a 200 is written only after the backend call and
\* then the synthesis have both succeeded; when the backend fails the synthesis
\* is not invoked; when the synthesis fails after the backend succeeded, the
\* reply is discarded and the request ends in the generic error.
C11_NoPartialResponse ==
    Dispatched =>
        /\ srvRes.outcome = "200" =>
              /\ srvReq.backend = "ok"
              /\ srvReq.synth # "fail"
              /\ Len(srvRes.calls) = 2
              /\ AdapterCalls = {1}
              /\ SpeechCalls = {2}
        /\ (ValidRequest /\ srvReq.backend = "fail") =>
              /\ SpeechCalls = {}
              /\ GenericError
              /\ srvRes.json.data = <<>>
        /\ (ValidRequest /\ srvReq.backend = "ok" /\ srvReq.synth = "fail") =>
              /\ GenericError
              /\ srvRes.json.data = <<>>

C11_Witness ==
    /\ Dispatched
    /\ ValidRequest
    /\ srvReq.backend = "ok"
    /\ srvReq.synth = "fail"
    /\ SpeechCalls = {2}
    /\ srvRes.outcome = "throw"

\* the lowercased tokens of the request's message
MessageTokens == Split(ToLowerCase(srvReq.body.message.v))

\* the message begins with keyword k: its leading tokens are k's tokens
BeginsWith(k) ==
    LET kt == Split(Chars(k)) IN
    /\ Len(MessageTokens) >= Len(kt)
    /\ Slice(MessageTokens, 0, Len(kt)) = kt

\* the lowercased message with the leading keyword k removed
StripKeyword(k) == Join(Slice(MessageTokens, Len(Split(Chars(k))), Len(MessageTokens)))

\* C14: for every message that begins with a keyword of the set, one-word or
\* two-word, the prompt handed to the backend adapter is the brevity
\* instruction followed by the lowercased message with that keyword removed.
C14_PromptStripsKeyword ==
    (Dispatched /\ srvReq.body.message.t = "string" /\ AdapterCalls = {1}) =>
        \A i \in 1..Len(modelKeywords) :
            BeginsWith(modelKeywords[i]) =>
                srvRes.calls[1].input = Instruction \o StripKeyword(modelKeywords[i])

LocalModels == {"local mistral", "local llama"}

\* the model the request is handled as
RequestedModel ==
    IF srvReq.body.model.t = "undefined" THEN "gpt" ELSE srvReq.body.model.v

\* C15: the synthesis voice depends on the model identifier alone: every local
\* identifier is synthesized with "fable", every other supported identifier
\* with "echo", whatever the message and the collaborators' outcomes.
C15_TwoVoicePolicy ==
    /\ "fable" # "echo"
    /\ (Dispatched /\ ValidRequest /\ SpeechCalls # {}) =>
          \A i \in SpeechCalls :
              srvRes.calls[i].voice =
                  IF RequestedModel \in LocalModels THEN "fable" ELSE "echo"

C15_Witness ==
    /\ Dispatched
    /\ ValidRequest
    /\ RequestedModel = "local llama"
    /\ SpeechCalls = {2}
    /\ srvRes.calls[2].voice = "fable"
    /\ srvRes.outcome = "200"

-----------------------------------------------------------------------------
(* More claims about the Turn Controller, checked under Spec *)

\* C12: Stop pressed while Listening with an empty transcript leaves the
\* controller Idle: no reply is played and listening is not re-armed.  (Stated
\* on its cause: after such a Stop no request with the empty message is
\* awaiting an answer that the Dispatcher gives as a 200 with audio, which the
\* controller would play and follow by listening again.)
C12_EmptyStopStaysIdle ==
    (lastEvent = "toggleStop" /\ transcript = <<>>) =>
        \A r \in BagToSet(inflight) :
            (r.via = "toggle" /\ r.body.message.v = <<>>) =>
                POST(r.body, "ok", "ok").outcome # "200"

\* C13: when recording has ended (the session recognitionRef holds has ended
\* and isRecording is false) no silence timer is pending.
C13_NoTimerAfterRecordingEnded ==
    (~Alive(recognitionRef) /\ ~isRecording) => ~silenceTimer.pending

\* C16: isPlaying is true whenever a reply audio that was started has not
\* ended, and at most one reply audio is playing.
C16_IsPlayingTracksPlayback ==
    /\ BagCardinality(audios) >= 1 => isPlaying
    /\ BagCardinality(audios) <= 1

\* nothing is under way that would clear isPlaying: no request awaits its
\* answer, no audio is playing, no session runs and no timer is pending
Quiescent ==
    /\ Turns = 0
    /\ NumAlive = 0
    /\ ~silenceTimer.pending

\* C17: isPlaying never stays true with nothing left to clear it, also when
\* the playback failed to start: the controller is then Idle.
C17_PlaybackFailureReturnsToIdle == Quiescent => ~isPlaying

\* C18: at most one recognition session is running at any time.
C18_OneSessionActive == NumAlive <= 1

\* C19: a request issued by Stop carries no model identifier, whatever the
\* transcript contains, and the Dispatcher handles it as model "gpt".
C19_StopCarriesNoModel ==
    \A r \in BagToSet(inflight) :
        r.via = "toggle" =>
            /\ r.body.model.t = "undefined"
            /\ POST(r.body, "ok", "ok").json.model = "gpt"
            /\ POST(r.body, "ok", "ok").calls[1].fn = "LangchainOpenAI"
            /\ POST(r.body, "ok", "ok").calls[1].model = Undefined

C19_Witness ==
    /\ lastEvent = "toggleStop"
    /\ \E r \in BagToSet(inflight) :
          /\ r.via = "toggle"
          /\ ~NoKeyword(r.body.message.v)
          /\ r.body.model.t = "undefined"

\* C20: the toggle pressed while a reply is playing and recording is off
\* changes nothing: no session is started or stopped, no request is issued,
\* and isRecording, isPlaying, the transcript and the model are unchanged.
C20_ToggleWhilePlayingIsNoop ==
    [][(/\ isPlaying
        /\ ~isRecording
        /\ lastEvent' \in {"toggleStart", "toggleStop", "toggleNoop"})
       => UNCHANGED <<isRecording, isPlaying, transcript, model, recognitionRef,
                      orphans, silenceTimer, inflight, audios>>]_vars

C20_Witness ==
    /\ lastEvent = "toggleNoop"
    /\ isPlaying
    /\ ~isRecording
    /\ BagCardinality(audios) >= 1

=============================================================================
